---------------------------- MODULE Spec2Model ----------------------------
(***************************************************************************)
(* A model of mllp_genesis.py: the MLLP frame codec (frame_message,        *)
(* extract_frames), the transport client (mllp_send), the delivery         *)
(* orchestrator (send_one_file) and the directory-backed pipeline          *)
(* (move_to_ready, process_ready_queue, cli_send_one, cli_queue).          *)
(*                                                                         *)
(* Eight specifications share the module's variables:                      *)
(*   SpecCodec    the codec applied to a byte stream arriving in fills;    *)
(*   SpecSend     one call of mllp_send, statement by statement;           *)
(*   SpecDeliver  one call of send_one_file;                               *)
(*   SpecQueue    the commands queue and send-one, no worker running;      *)
(*   SpecWorker   queue commands and one worker, never killed;             *)
(*   SpecTwo      two workers started over the same ready directory;       *)
(*   SpecSerial   queue, send-one and one worker, one command at a time;   *)
(*   Spec         the pipeline directories under the command surface,      *)
(*                the worker killed and started again included.            *)
(***************************************************************************)
EXTENDS Integers, Sequences, FiniteSets, TLC

(***************************************************************************)
(* Bounds of the model.                                                    *)
(***************************************************************************)
MaxPayloadLen == 2
MaxWire == 8
MaxFills == 2
MaxAttempts == 2
MaxOps == 3
MaxCrashes == 1
MaxTries == 3

(***************************************************************************)
(* Bytes.  START_BLOCK is 0x0B, END_BLOCK is 0x1C 0x0D; 65 ("A") stands    *)
(* for every byte that is not part of a marker.                            *)
(***************************************************************************)
Bytes == {11, 28, 13, 65}

START_BLOCK == <<11>>
END_BLOCK == <<28, 13>>

(***************************************************************************)
(* Python's sequence primitives, with Python's 0-based positions.          *)
(***************************************************************************)
\* s[lo:hi]
Slice(s, lo, hi) ==
    LET h == IF hi > Len(s) THEN Len(s) ELSE hi
    IN  IF lo >= h THEN <<>> ELSE SubSeq(s, lo + 1, h)

\* s.index(sub, from): the first position >= from at which sub occurs,
\* -1 standing for ValueError.
Index(s, sub, from) ==
    LET hits == {i \in from..(Len(s) - Len(sub)) : Slice(s, i, i + Len(sub)) = sub}
    IN  IF hits = {} THEN -1
        ELSE CHOOSE i \in hits : \A j \in hits : i <= j

RECURSIVE Concat(_)
Concat(ss) == IF ss = <<>> THEN <<>> ELSE Head(ss) \o Concat(Tail(ss))

(***************************************************************************)
(* Frame codec.                                                            *)
(***************************************************************************)
frame_message(payload) == START_BLOCK \o payload \o END_BLOCK

\* The while loop of extract_frames: returns the frames found and what is
\* left of the buffer.
RECURSIVE ExtractLoop(_, _)
ExtractLoop(buffer, frames) ==
    LET start == Index(buffer, START_BLOCK, 0)
    IN  IF start = -1 THEN [frames |-> frames, buffer |-> buffer]
        ELSE LET end == Index(buffer, END_BLOCK, start + 1)
             IN  IF end = -1 THEN [frames |-> frames, buffer |-> buffer]
                 ELSE ExtractLoop(Slice(buffer, end + Len(END_BLOCK), Len(buffer)),
                                  Append(frames, Slice(buffer, start + 1, end)))

\* A codec that deletes only up to the first byte of the end marker.
RECURSIVE ExtractLoopShortDel(_, _)
ExtractLoopShortDel(buffer, frames) ==
    LET start == Index(buffer, START_BLOCK, 0)
    IN  IF start = -1 THEN [frames |-> frames, buffer |-> buffer]
        ELSE LET end == Index(buffer, END_BLOCK, start + 1)
             IN  IF end = -1 THEN [frames |-> frames, buffer |-> buffer]
                 ELSE ExtractLoopShortDel(Slice(buffer, end + 1, Len(buffer)),
                                          Append(frames, Slice(buffer, start + 1, end)))

extract_frames_shortdel(buffer) == ExtractLoopShortDel(buffer, <<>>)

\* A codec that throws an incomplete trailing frame away.
extract_frames_droppartial(buffer) ==
    LET r == ExtractLoop(buffer, <<>>)
    IN  [frames |-> r.frames, buffer |-> <<>>]

extract_frames(buffer) == ExtractLoop(buffer, <<>>)


(***************************************************************************)
(* Files.  A file name is a Document's basename followed by `ext` copies   *)
(* of META_EXT: a.edi, a.edi.meta.json, a.edi.meta.json.meta.json, ...     *)
(* A directory is a function from the names in it to their contents.       *)
(***************************************************************************)
DocOrder == <<"a.edi", "b.edi">>
Docs == {DocOrder[i] : i \in 1..Len(DocOrder)}

Dirs == {"generated", "ready", "sent", "failed", "archive"}

Doc(d) == [doc |-> d, ext |-> 0]

\* path + META_EXT
META_EXT(name) == [name EXCEPT !.ext = @ + 1]

EmptyDir == [n \in {} |-> n]

Put(dir, name, content) ==
    [n \in DOMAIN dir \cup {name} |-> IF n = name THEN content ELSE dir[n]]

Remove(dir, name) == [n \in DOMAIN dir \ {name} |-> dir[n]]

Exists(f, d, name) == name \in DOMAIN f[d]

\* open(path, "w").write(content), shutil.copy2(src, path)
WriteFile(f, d, name, content) == [f EXCEPT ![d] = Put(@, name, content)]

\* a move that leaves the source in place (a copy)
MoveFile_copy(f, sd, sname, dd, dname) ==
    [f EXCEPT ![dd] = Put(@, dname, f[sd][sname])]

\* shutil.move(src, dst) of an existing file: a rename, which replaces dst
MoveFile(f, sd, sname, dd, dname) ==
    [f EXCEPT ![dd] = Put(@, dname, f[sd][sname]), ![sd] = Remove(@, sname)]

\* sorted(os.listdir(d)): a.edi < a.edi.meta.json < ... < b.edi < ...
DocPos(d) == CHOOSE i \in 1..Len(DocOrder) : DocOrder[i] = d

NameLess(a, b) ==
    \/ DocPos(a.doc) < DocPos(b.doc)
    \/ a.doc = b.doc /\ a.ext < b.ext

RECURSIVE SortedNames(_)
SortedNames(S) ==
    IF S = {} THEN <<>>
    ELSE LET m == CHOOSE x \in S : \A y \in S : x = y \/ NameLess(x, y)
         IN  <<m>> \o SortedNames(S \ {m})

(***************************************************************************)
(* File contents.  A payload is kept as what basic_validate_edifact_bytes  *)
(* looks at; a sidecar is kept as the dict that was dumped into it.        *)
(***************************************************************************)
\* What simple_edifact_from_order writes: UNA ... UNH ... UNT ... UNZ.
GeneratedPayload == [kind |-> "edi", head |-> "UNA", unh |-> TRUE, unt |-> TRUE]

\* A file put into generated/ by hand, with no UNH segment.
ForeignPayload == [kind |-> "edi", head |-> "UNB", unh |-> FALSE, unt |-> TRUE]

\* Python's None and a present value.
None == <<>>
Some(x) == <<x>>

\* How the text of a file starts: a sidecar is JSON and starts with "{".
HeadOf(data) == IF data.kind = "edi" THEN data.head ELSE "{"

basic_validate_edifact_bytes(data) ==
    IF HeadOf(data) \notin {"UNA", "UNB"} THEN [ok |-> FALSE, note |-> "missing_UNA_or_UNB"]
    ELSE IF ~(data.kind = "edi" /\ data.unh) THEN [ok |-> FALSE, note |-> "missing_UNH"]
    ELSE IF ~(data.kind = "edi" /\ data.unt) THEN [ok |-> FALSE, note |-> "missing_UNT"]
    ELSE [ok |-> TRUE, note |-> "ok"]

\* meta = {"moved_at": ..., "src": path}
ReadyMeta(srcdir, name) ==
    [kind |-> "meta", moved_at |-> "t", src |-> <<srcdir, name>>]

\* meta = {"attempts": 0, "sent_at": None, "ack": None, "error": None}
SendMeta0 ==
    [kind |-> "meta", attempts |-> 0, sent_at |-> "null", ack |-> None, error |-> "null"]

\* the record with the attempt counter started at 1
QueueMeta0_counted(fname) ==
    [kind |-> "meta", file |-> fname, attempts |-> 1, sent_at |-> "null",
     ack |-> None, error |-> "null"]

\* meta = {"file": fname, "attempts": 0, "sent_at": None, "ack": None, "error": None}
QueueMeta0(fname) ==
    [kind |-> "meta", file |-> fname, attempts |-> 0, sent_at |-> "null",
     ack |-> None, error |-> "null"]

\* meta.update(send_meta), and meta["file"] = ... on send_meta
WithFile(send_meta, fname) ==
    [kind |-> "meta", file |-> fname, attempts |-> send_meta.attempts,
     sent_at |-> send_meta.sent_at, ack |-> send_meta.ack, error |-> send_meta.error]

(***************************************************************************)
(* The delivery orchestrator.  `script` is what mllp_send will do on the   *)
(* first, second, ... call: return None, return an ACK payload, or raise.  *)
(***************************************************************************)
AckPayloads == {<<65>>}

Responses ==
    {[kind |-> "none", bytes |-> <<>>], [kind |-> "raise", bytes |-> <<>>]}
    \cup {[kind |-> "ack", bytes |-> b] : b \in AckPayloads}

\* resp.decode("utf-8", errors="replace"): one character per byte below
\* 0x80, U+FFFD for a byte that is no UTF-8.
Decode(bytes) == [i \in 1..Len(bytes) |-> IF bytes[i] < 128 THEN bytes[i] ELSE 65533]

\* The for loop of send_one_file from `attempt` on.  trace: the responses of
\* the mllp_send calls made; sleeps: the time.sleep(1) calls made.
RECURSIVE SendLoop(_, _, _, _, _, _, _)
SendLoop(attempt, max_attempts, readable, script, meta, trace, sleeps) ==
    IF attempt > max_attempts
    THEN [exit |-> "return", success |-> FALSE, meta |-> meta, trace |-> trace, sleeps |-> sleeps]
    ELSE LET m1 == [meta EXCEPT !.attempts = attempt]
         IN  IF ~readable
             THEN [exit |-> "return", success |-> FALSE,
                   meta |-> [m1 EXCEPT !.error = "read_error"],
                   trace |-> trace, sleeps |-> sleeps]
             ELSE LET resp == script[attempt]
                      called == Append(trace, resp)
                      m2 == [m1 EXCEPT !.sent_at = "t"]
                  IN  IF resp.kind = "raise"
                      THEN [exit |-> "raise", success |-> FALSE, meta |-> m1,
                            trace |-> called, sleeps |-> sleeps]
                      ELSE IF resp.kind = "none"
                      THEN SendLoop(attempt + 1, max_attempts, readable, script,
                                    [m2 EXCEPT !.error = "no_ack_or_timeout"],
                                    called, sleeps + 1)
                      ELSE [exit |-> "return", success |-> TRUE,
                            meta |-> [m2 EXCEPT !.ack = Some(Decode(resp.bytes))],
                            trace |-> called, sleeps |-> sleeps]

\* The loop without the return after an ACK: the ACK is recorded and the
\* next attempt follows.
RECURSIVE SendLoopNoStop(_, _, _, _, _, _, _)
SendLoopNoStop(attempt, max_attempts, readable, script, meta, trace, sleeps) ==
    IF attempt > max_attempts
    THEN [exit |-> "return", success |-> meta.ack # None, meta |-> meta,
          trace |-> trace, sleeps |-> sleeps]
    ELSE LET m1 == [meta EXCEPT !.attempts = attempt]
         IN  IF ~readable
             THEN [exit |-> "return", success |-> FALSE,
                   meta |-> [m1 EXCEPT !.error = "read_error"],
                   trace |-> trace, sleeps |-> sleeps]
             ELSE LET resp == script[attempt]
                      called == Append(trace, resp)
                      m2 == [m1 EXCEPT !.sent_at = "t"]
                  IN  IF resp.kind = "raise"
                      THEN [exit |-> "raise", success |-> FALSE, meta |-> m1,
                            trace |-> called, sleeps |-> sleeps]
                      ELSE IF resp.kind = "none"
                      THEN SendLoopNoStop(attempt + 1, max_attempts, readable, script,
                                          [m2 EXCEPT !.error = "no_ack_or_timeout"],
                                          called, sleeps + 1)
                      ELSE SendLoopNoStop(attempt + 1, max_attempts, readable, script,
                                          [m2 EXCEPT !.ack = Some(Decode(resp.bytes))],
                                          called, sleeps)

send_one_file_nostop(readable, max_attempts, script) ==
    SendLoopNoStop(1, max_attempts, readable, script, SendMeta0, <<>>, 0)

\* range(1, max_attempts) for range(1, max_attempts + 1)
send_one_file_short(readable, max_attempts, script) ==
    SendLoop(1, max_attempts - 1, readable, script, SendMeta0, <<>>, 0)

send_one_file(readable, max_attempts, script) ==
    SendLoop(1, max_attempts, readable, script, SendMeta0, <<>>, 0)

\* What the network may do over the calls of one send_one_file.
Scripts(max_attempts) ==
    [1..(IF max_attempts > 0 THEN max_attempts ELSE 0) -> Responses]

\* Every way a call of send_one_file can end.
Deliveries(readable, max_attempts) ==
    {send_one_file(readable, max_attempts, script) : script \in Scripts(max_attempts)}

(***************************************************************************)
(* Promotion to Ready.                                                     *)
(***************************************************************************)
\* move_to_ready without the os.path.exists(dest) test
move_to_ready_nocheck(f, srcdir, name, force) ==
    [exc |-> "",
     fs |-> WriteFile(WriteFile(f, "ready", name, f[srcdir][name]),
                      "ready", META_EXT(name), ReadyMeta(srcdir, name))]

\* move_to_ready(path, force) with path = srcdir/name: the exception it
\* raises ("" for none) and the directories afterwards.
move_to_ready(f, srcdir, name, force) ==
    IF Exists(f, "ready", name) /\ ~force
    THEN [exc |-> "FileExistsError", fs |-> f]
    ELSE [exc |-> "",
          fs |-> WriteFile(WriteFile(f, "ready", name, f[srcdir][name]),
                           "ready", META_EXT(name), ReadyMeta(srcdir, name))]

(***************************************************************************)
(* State.                                                                  *)
(***************************************************************************)
VARIABLES
    \* the byte stream of the codec and of the transport client's read loop
    payloads,   \* the payloads the sending side framed, in order
    wire,       \* the framed bytes that have not arrived yet
    buf,        \* the bytearray handed to extract_frames
    rets,       \* what each call of extract_frames returned, in order
    cuts,       \* the size of each fill of buf, in order
    \* one call of mllp_send
    mpc,        \* the statement the call is at
    tls,        \* the tls argument
    cafile,     \* the cafile argument: "" (None), a loadable or an unloadable file
    fd,         \* the connection: "none" (not opened), "open", "closed"
    conn,       \* the object conn names: "none", "raw", "tls"
    mres,       \* how the call ended: "pending", "ack", "none" (returned None), "raised"
    mret,       \* the payload returned as the ACK
    \* the pipeline
    fs,         \* the five directories
    wk,         \* each worker process (process_ready_queue): its locals
    ops,        \* commands issued so far
    crashes,    \* worker processes killed so far
    last,       \* the command that made the last step, and how it ended
    \* one call of send_one_file
    dargs,      \* its arguments, and what mllp_send does at each call
    dret        \* what it returned: None while it has not been called

codecVars == <<payloads, wire, buf, rets, cuts>>
sendVars == <<mpc, tls, cafile, fd, conn, mres, mret>>
pipeVars == <<fs, wk, ops, crashes, last>>
deliverVars == <<dargs, dret>>

vars == <<payloads, wire, buf, rets, cuts, mpc, tls, cafile, fd, conn, mres, mret,
          fs, wk, ops, crashes, last, dargs, dret>>

AllWorkers == {"w1", "w2"}

\* A process that is not running process_ready_queue.  quiet, crashed, orig,
\* late and snap are history: no command has run since the snapshot was
\* taken; the run before this one was killed; the Documents of that run's
\* snapshot; the Documents queued into ready since the snapshot was taken;
\* the names listed when the snapshot was taken.
IdleWorker ==
    [pc |-> "idle", files |-> <<>>, i |-> 0, max_attempts |-> 0, archive |-> FALSE,
     meta |-> SendMeta0, success |-> FALSE, readable |-> FALSE, trace |-> <<>>,
     sleeps |-> 0, ok |-> FALSE, quiet |-> TRUE, crashed |-> FALSE, orig |-> {},
     late |-> {}, snap |-> {}]

NoLast ==
    [op |-> "step", dir |-> "", doc |-> "", force |-> FALSE, existed |-> FALSE, res |-> ""]

\* os.makedirs(..., exist_ok=True) at import: the directories exist.
\* generated/ holds a.edi and b.edi: each was written by cli_generate or is
\* a foreign file, and at least one was written by cli_generate.
InitPipe ==
    /\ \E a \in {GeneratedPayload, ForeignPayload}, b \in {GeneratedPayload, ForeignPayload} :
           /\ GeneratedPayload \in {a, b}
           /\ fs = [d \in Dirs |->
                      IF d = "generated"
                      THEN Put(Put(EmptyDir, Doc("a.edi"), a), Doc("b.edi"), b)
                      ELSE EmptyDir]
    /\ wk = [w \in AllWorkers |-> IdleWorker]
    /\ ops = 0
    /\ crashes = 0
    /\ last = NoLast

\* mllp_send is not running.
SendIdle ==
    /\ mpc = "off" /\ tls = FALSE /\ cafile = ""
    /\ fd = "none" /\ conn = "none" /\ mres = "pending" /\ mret = <<>>

\* send_one_file has not been called on its own.
NoCall == [readable |-> FALSE, max_attempts |-> 0, script |-> <<>>]

DeliverIdle == dargs = NoCall /\ dret = None

\* No byte stream is in play.
CodecIdle ==
    /\ payloads = <<>> /\ wire = <<>> /\ buf = <<>> /\ rets = <<>> /\ cuts = <<>>

(***************************************************************************)
(* SpecCodec: a stream of frames arrives in fills; extract_frames is       *)
(* called after each fill, as the read loop of mllp_send does.             *)
(***************************************************************************)
RECURSIVE SeqsUpTo(_, _)
SeqsUpTo(S, n) ==
    IF n = 0 THEN {<<>>}
    ELSE LET shorter == SeqsUpTo(S, n - 1)
         IN  shorter \cup {Append(s, x) : s \in {t \in shorter : Len(t) = n - 1}, x \in S}

Payloads == SeqsUpTo(Bytes, MaxPayloadLen)

Framed(ps) == Concat([i \in 1..Len(ps) |-> frame_message(ps[i])])

\* Every sequence of payloads whose frames fit in MaxWire bytes.
PayloadSeqs ==
    LET perFrame == Len(START_BLOCK) + Len(END_BLOCK)
        room(n) == MaxWire - n * perFrame
        fit(n) == {p \in Payloads : Len(p) <= room(n)}
    IN  UNION {{ps \in [1..n -> fit(n)] : Len(Framed(ps)) <= MaxWire}
               : n \in 1..(MaxWire \div perFrame)}

\* The payload holds the end marker: the one collision that breaks a frame.
Collides(p) == Index(p, END_BLOCK, 0) # -1

InitCodec ==
    /\ payloads \in PayloadSeqs
    /\ wire = Framed(payloads)
    /\ buf = <<>>
    /\ rets = <<>>
    /\ cuts = <<>>
    /\ SendIdle
    /\ InitPipe
    /\ DeliverIdle

\* n more bytes arrive and are appended to the buffer (buf.extend(chunk)).
Fill(n) ==
    /\ Len(cuts) = Len(rets)
    /\ Len(cuts) < MaxFills
    /\ n \in 1..Len(wire)
    /\ buf' = buf \o Slice(wire, 0, n)
    /\ wire' = Slice(wire, n, Len(wire))
    /\ cuts' = Append(cuts, n)
    /\ UNCHANGED <<payloads, rets>>
    /\ UNCHANGED sendVars
    /\ UNCHANGED <<pipeVars, deliverVars>>

\* frames = extract_frames(buf)
Extract ==
    /\ Len(cuts) = Len(rets) + 1
    /\ LET r == extract_frames(buf)
       IN  /\ buf' = r.buffer
           /\ rets' = Append(rets, r.frames)
    /\ UNCHANGED <<payloads, wire, cuts>>
    /\ UNCHANGED sendVars
    /\ UNCHANGED <<pipeVars, deliverVars>>

NextCodec ==
    \/ \E n \in 1..MaxWire : Fill(n)
    \/ Extract

SpecCodec == InitCodec /\ [][NextCodec]_vars

(***************************************************************************)
(* Spec: the pipeline.  Commands (queue, send-one, worker) are issued in    *)
(* any order; queue and send-one run to their end in                       *)
(* one step, a worker advances one file operation at a time, so that other *)
(* commands and a kill of the worker fall between its operations.          *)
(***************************************************************************)
AttemptArgs == {-1, 0} \cup 1..MaxAttempts

\* Where the files named on the command line lie.
QueueDirs == {"generated"}
SendOneDirs == {"generated", "ready"}

\* A command other than the worker's own run has been issued.
Disturbed(r) ==
    IF r.pc = "idle" THEN IdleWorker
    ELSE [r EXCEPT !.quiet = FALSE, !.crashed = FALSE, !.orig = {}]

\* Command l has put a Document into ready while the worker was running.
Promoted(r, l) ==
    IF r.pc # "idle" /\ l.op = "queue" /\ l.res = "Queued"
    THEN [r EXCEPT !.late = @ \cup {l.doc}]
    ELSE r

Command(l) ==
    /\ ops < MaxOps
    /\ ops' = ops + 1
    /\ last' = l
    /\ wk' = [w \in AllWorkers |-> Promoted(Disturbed(wk[w]), l)]
    /\ UNCHANGED crashes
    /\ UNCHANGED <<codecVars, sendVars, deliverVars>>

\* cli_queue: queue dir/d [--force]
cli_queue(dir, d, force) ==
    LET name == Doc(d)
        l == [NoLast EXCEPT !.op = "queue", !.dir = dir, !.doc = d, !.force = force,
                             !.existed = Exists(fs, "ready", name)]
    IN  IF ~Exists(fs, dir, name)
        THEN /\ UNCHANGED fs
             /\ Command([l EXCEPT !.res = "Source file not found"])
        ELSE LET r == move_to_ready(fs, dir, name, force)
             IN  /\ fs' = r.fs
                 /\ Command([l EXCEPT !.res = IF r.exc = "FileExistsError"
                                                THEN "Destination exists"
                                                ELSE "Queued"])

\* cli_send_one: send-one dir/d --attempts n
cli_send_one(dir, d, n, r) ==
    LET name == Doc(d)
        l == [NoLast EXCEPT !.op = "send-one", !.dir = dir, !.doc = d]
    IN  IF ~Exists(fs, dir, name)
        THEN /\ UNCHANGED fs
             /\ Command([l EXCEPT !.res = "File not found"])
        ELSE IF ~basic_validate_edifact_bytes(fs[dir][name]).ok
        THEN /\ UNCHANGED fs
             /\ Command([l EXCEPT !.res = "Validation failed"])
        ELSE LET written == WriteFile(fs, dir, META_EXT(name), WithFile(r.meta, name))
                 dest == IF r.success THEN "sent" ELSE "failed"
                 moved == MoveFile(written, dir, name, dest, name)
             IN  IF r.exit = "raise"
                 THEN /\ UNCHANGED fs
                      /\ Command([l EXCEPT !.res = "raised"])
                 ELSE /\ fs' = MoveFile(moved, dir, META_EXT(name), dest, META_EXT(name))
                      /\ Command([l EXCEPT !.res = IF r.success THEN "Sent and moved"
                                                     ELSE "Send failed; moved"])

\* A step of worker w that leaves it with locals r and the directories f.
WorkerStep(w, r, f) ==
    /\ wk' = [wk EXCEPT ![w] = r]
    /\ fs' = f
    /\ last' = NoLast
    /\ UNCHANGED <<ops, crashes>>
    /\ UNCHANGED <<codecVars, sendVars, deliverVars>>

\* An exception leaves process_ready_queue: the process ends.
Abort(w) ==
    /\ wk' = [wk EXCEPT ![w] = IdleWorker]
    /\ last' = NoLast
    /\ UNCHANGED <<fs, ops, crashes>>
    /\ UNCHANGED <<codecVars, sendVars, deliverVars>>

\* The next file of the snapshot.
NextFile(r) ==
    [r EXCEPT !.i = @ + 1, !.pc = "loop", !.meta = SendMeta0, !.success = FALSE,
              !.readable = FALSE, !.trace = <<>>, !.sleeps = 0, !.ok = FALSE]

\* cli_worker: files = sorted(os.listdir(READY_DIR)).  Starting the worker
\* again after it was killed is not counted as a new command.
StartRun(w, n, arch) ==
    LET r == wk[w]
        files == SortedNames(DOMAIN fs["ready"])
        docs == {files[k].doc : k \in {j \in 1..Len(files) : files[j].ext = 0}}
    IN  /\ r.pc = "idle"
        /\ r.crashed \/ ops < MaxOps
        /\ ops' = IF r.crashed THEN ops ELSE ops + 1
        /\ wk' = [wk EXCEPT ![w] =
                     [IdleWorker EXCEPT !.pc = "loop", !.files = files, !.i = 1,
                                        !.max_attempts = n, !.archive = arch,
                                        !.crashed = r.crashed,
                                        !.snap = DOMAIN fs["ready"],
                                        !.orig = IF r.crashed THEN r.orig ELSE docs]]
        /\ last' = NoLast
        /\ UNCHANGED <<fs, crashes>>
        /\ UNCHANGED <<codecVars, sendVars, deliverVars>>

\* the loop as a live watch: at the end of the list it lists ready again
Loop_live(w) ==
    LET r == wk[w]
        fname == r.files[r.i]
        seen == {r.files[k] : k \in 1..Len(r.files)}
        more == SortedNames(DOMAIN fs["ready"] \ seen)
    IN  /\ r.pc = "loop"
        /\ IF r.i > Len(r.files)
           THEN IF more = <<>>
                THEN WorkerStep(w, [r EXCEPT !.pc = "done"], fs)
                ELSE WorkerStep(w, [r EXCEPT !.files = @ \o more], fs)
           ELSE IF ~Exists(fs, "ready", fname)
           THEN WorkerStep(w, NextFile(r), fs)
           ELSE LET v == basic_validate_edifact_bytes(fs["ready"][fname])
                IN  IF v.ok
                    THEN WorkerStep(w, [r EXCEPT !.pc = "deliver", !.ok = TRUE,
                                                 !.meta = QueueMeta0(fname)], fs)
                    ELSE WorkerStep(w, [r EXCEPT !.pc = "write", !.ok = FALSE,
                                                 !.meta = [QueueMeta0(fname) EXCEPT
                                                     !.error = "validation_failed:" \o v.note]],
                                    fs)

\* for fname in files: if not os.path.isfile(fpath): continue;
\* ok, prev = validate_file(fpath)
Loop(w) ==
    LET r == wk[w]
        fname == r.files[r.i]
    IN  /\ r.pc = "loop"
        /\ IF r.i > Len(r.files)
           THEN WorkerStep(w, [r EXCEPT !.pc = "done"], fs)
           ELSE IF ~Exists(fs, "ready", fname)
           THEN WorkerStep(w, NextFile(r), fs)
           ELSE LET v == basic_validate_edifact_bytes(fs["ready"][fname])
                IN  IF v.ok
                    THEN WorkerStep(w, [r EXCEPT !.pc = "deliver", !.ok = TRUE,
                                                 !.meta = QueueMeta0(fname)], fs)
                    ELSE WorkerStep(w, [r EXCEPT !.pc = "write", !.ok = FALSE,
                                                 !.meta = [QueueMeta0(fname) EXCEPT
                                                     !.error = "validation_failed:" \o v.note]],
                                    fs)

\* the delivery held back while another worker has delivered the same file
\* and not yet moved it
Deliver_exclusive(w, res) ==
    LET r == wk[w]
        fname == r.files[r.i]
        readable == Exists(fs, "ready", fname)
    IN  /\ r.pc = "deliver"
        /\ \A v \in AllWorkers \ {w} :
               ~(wk[v].pc \in {"write", "move"} /\ wk[v].files[wk[v].i] = fname)
        /\ res \in Deliveries(readable, r.max_attempts)
        /\ IF res.exit = "raise"
           THEN Abort(w)
           ELSE WorkerStep(w, [r EXCEPT !.pc = "write",
                                        !.meta = WithFile(res.meta, r.meta.file),
                                        !.success = res.success,
                                        !.readable = readable,
                                        !.trace = res.trace,
                                        !.sleeps = res.sleeps], fs)

\* success, send_meta = send_one_file(fpath, ...); meta.update(send_meta)
Deliver(w, res) ==
    LET r == wk[w]
        fname == r.files[r.i]
        readable == Exists(fs, "ready", fname)
    IN  /\ r.pc = "deliver"
        /\ res \in Deliveries(readable, r.max_attempts)
        /\ IF res.exit = "raise"
           THEN Abort(w)
           ELSE WorkerStep(w, [r EXCEPT !.pc = "write",
                                        !.meta = WithFile(res.meta, r.meta.file),
                                        !.success = res.success,
                                        !.readable = readable,
                                        !.trace = res.trace,
                                        !.sleeps = res.sleeps], fs)

\* write_meta_for_send(fpath, meta)
WriteMeta(w) ==
    LET r == wk[w]
        fname == r.files[r.i]
    IN  /\ r.pc = "write"
        /\ WorkerStep(w, [r EXCEPT !.pc = "move"],
                      WriteFile(fs, "ready", META_EXT(fname), r.meta))

\* shutil.move(fpath, dest), dest in sent/ or failed/
MovePayload(w) ==
    LET r == wk[w]
        fname == r.files[r.i]
        dest == IF r.success THEN "sent" ELSE "failed"
    IN  /\ r.pc = "move"
        /\ IF ~Exists(fs, "ready", fname)
           THEN Abort(w)
           ELSE WorkerStep(w, [r EXCEPT !.pc = "movemeta"],
                           MoveFile(fs, "ready", fname, dest, fname))

\* try: shutil.move(fpath + META_EXT, dest + META_EXT); except Exception: pass
MoveMeta(w) ==
    LET r == wk[w]
        fname == r.files[r.i]
        dest == IF r.success THEN "sent" ELSE "failed"
        f == IF Exists(fs, "ready", META_EXT(fname))
             THEN MoveFile(fs, "ready", META_EXT(fname), dest, META_EXT(fname))
             ELSE fs
    IN  /\ r.pc = "movemeta"
        /\ IF r.success /\ r.archive
           THEN WorkerStep(w, [r EXCEPT !.pc = "archive"], f)
           ELSE WorkerStep(w, NextFile(r), f)

\* the archive step without the copy of the sidecar
Archive_payloadonly(w) ==
    LET r == wk[w]
        fname == r.files[r.i]
    IN  /\ r.pc = "archive"
        /\ IF ~Exists(fs, "sent", fname)
           THEN WorkerStep(w, NextFile(r), fs)
           ELSE WorkerStep(w, NextFile(r),
                           WriteFile(fs, "archive", fname, fs["sent"][fname]))

\* if archive_on_sent: try: shutil.copy2(dest, ...); if os.path.exists(dest +
\* META_EXT): shutil.copy2(dest + META_EXT, ...); except Exception: pass
Archive(w) ==
    LET r == wk[w]
        fname == r.files[r.i]
        copied == WriteFile(fs, "archive", fname, fs["sent"][fname])
    IN  /\ r.pc = "archive"
        /\ IF ~Exists(fs, "sent", fname)
           THEN WorkerStep(w, NextFile(r), fs)
           ELSE IF Exists(fs, "sent", META_EXT(fname))
           THEN WorkerStep(w, NextFile(r),
                           WriteFile(copied, "archive", META_EXT(fname),
                                     fs["sent"][META_EXT(fname)]))
           ELSE WorkerStep(w, NextFile(r), copied)

\* process_ready_queue returns; cli_worker prints "Done." and the process ends.
Exit(w) ==
    /\ wk[w].pc = "done"
    /\ WorkerStep(w, IdleWorker, fs)

\* The worker process is killed between two of its operations.
Crash(w) ==
    LET r == wk[w]
    IN  /\ r.pc \notin {"idle", "done"}
        /\ crashes < MaxCrashes
        /\ crashes' = crashes + 1
        /\ wk' = [wk EXCEPT ![w] =
                     [IdleWorker EXCEPT !.crashed = r.quiet,
                                        !.orig = IF r.quiet THEN r.orig ELSE {}]]
        /\ last' = NoLast
        /\ UNCHANGED <<fs, ops>>
        /\ UNCHANGED <<codecVars, sendVars, deliverVars>>

Workers == {"w1"}

AllIdle == \A w \in AllWorkers : wk[w].pc = "idle"

Init == InitPipe /\ CodecIdle /\ SendIdle /\ DeliverIdle

Next ==
    \/ \E dir \in QueueDirs, d \in Docs, force \in BOOLEAN : cli_queue(dir, d, force)
    \/ \E dir \in SendOneDirs, d \in Docs, n \in AttemptArgs :
           \E r \in Deliveries(TRUE, n) : cli_send_one(dir, d, n, r)
    \/ \E w \in Workers, n \in AttemptArgs, arch \in BOOLEAN : StartRun(w, n, arch)
    \/ \E w \in Workers : Loop(w)
    \/ \E w \in Workers :
           \E res \in Deliveries(TRUE, wk[w].max_attempts)
                       \cup Deliveries(FALSE, wk[w].max_attempts) : Deliver(w, res)
    \/ \E w \in Workers : WriteMeta(w)
    \/ \E w \in Workers : MovePayload(w)
    \/ \E w \in Workers : MoveMeta(w)
    \/ \E w \in Workers : Archive(w)
    \/ \E w \in Workers : Exit(w)
    \/ \E w \in Workers : Crash(w)

Spec == Init /\ [][Next]_vars

(***************************************************************************)
(* SpecQueue: the commands queue and send-one alone, in any order, while   *)
(* no worker runs.                                                         *)
(***************************************************************************)
NextQueue ==
    \/ \E dir \in QueueDirs, d \in Docs, force \in BOOLEAN : cli_queue(dir, d, force)
    \/ \E dir \in SendOneDirs, d \in Docs, n \in AttemptArgs :
           \E r \in Deliveries(TRUE, n) : cli_send_one(dir, d, n, r)

SpecQueue == Init /\ [][NextQueue]_vars

(***************************************************************************)
(* SpecWorker: queue commands and one worker; nothing is killed and no     *)
(* send-one is issued.  A queue command may fall between two operations of *)
(* the worker.                                                             *)
(***************************************************************************)
NextWorker ==
    \/ \E dir \in QueueDirs, d \in Docs, force \in BOOLEAN : cli_queue(dir, d, force)
    \/ \E w \in Workers, n \in AttemptArgs, arch \in BOOLEAN : StartRun(w, n, arch)
    \/ \E w \in Workers : Loop(w)
    \/ \E w \in Workers :
           \E res \in Deliveries(TRUE, wk[w].max_attempts)
                       \cup Deliveries(FALSE, wk[w].max_attempts) : Deliver(w, res)
    \/ \E w \in Workers : WriteMeta(w)
    \/ \E w \in Workers : MovePayload(w)
    \/ \E w \in Workers : MoveMeta(w)
    \/ \E w \in Workers : Archive(w)
    \/ \E w \in Workers : Exit(w)

SpecWorker == Init /\ [][NextWorker]_vars

(***************************************************************************)
(* SpecTwo: two worker processes on the same directories, started with     *)
(* --attempts 1 after the operator has queued Documents.                   *)
(***************************************************************************)
NextTwo ==
    \/ \E dir \in QueueDirs, d \in Docs, force \in BOOLEAN :
           AllIdle /\ cli_queue(dir, d, force)
    \/ \E w \in AllWorkers, arch \in BOOLEAN : StartRun(w, 1, arch)
    \/ \E w \in AllWorkers : Loop(w)
    \/ \E w \in AllWorkers :
           \E res \in Deliveries(TRUE, wk[w].max_attempts)
                       \cup Deliveries(FALSE, wk[w].max_attempts) : Deliver(w, res)
    \/ \E w \in AllWorkers : WriteMeta(w)
    \/ \E w \in AllWorkers : MovePayload(w)
    \/ \E w \in AllWorkers : MoveMeta(w)
    \/ \E w \in AllWorkers : Archive(w)
    \/ \E w \in AllWorkers : Exit(w)

SpecTwo == Init /\ [][NextTwo]_vars

(***************************************************************************)
(* SpecSerial: one operator, one command at a time: queue and send-one are *)
(* issued only while no worker runs, and a worker runs to its end.         *)
(***************************************************************************)
NextSerial ==
    \/ \E dir \in QueueDirs, d \in Docs, force \in BOOLEAN :
           AllIdle /\ cli_queue(dir, d, force)
    \/ \E dir \in SendOneDirs, d \in Docs, n \in AttemptArgs :
           \E r \in Deliveries(TRUE, n) : AllIdle /\ cli_send_one(dir, d, n, r)
    \/ \E w \in Workers, n \in AttemptArgs, arch \in BOOLEAN : StartRun(w, n, arch)
    \/ \E w \in Workers : Loop(w)
    \/ \E w \in Workers :
           \E res \in Deliveries(TRUE, wk[w].max_attempts)
                       \cup Deliveries(FALSE, wk[w].max_attempts) : Deliver(w, res)
    \/ \E w \in Workers : WriteMeta(w)
    \/ \E w \in Workers : MovePayload(w)
    \/ \E w \in Workers : MoveMeta(w)
    \/ \E w \in Workers : Archive(w)
    \/ \E w \in Workers : Exit(w)

SpecSerial == Init /\ [][NextSerial]_vars

(***************************************************************************)
(* Claims about the pipeline.                                              *)
(***************************************************************************)
Basenames(dir) == {d \in Docs : Exists(fs, dir, Doc(d))}

\* C1: in every reachable state each Document basename is present in at
\* most one of the directories ready, sent and failed.
C1_AtMostOneOfReadySentFailed ==
    \A d \in Docs :
        Cardinality({dir \in {"ready", "sent", "failed"} : d \in Basenames(dir)}) <= 1

\* The Documents of a run's snapshot.
SnapshotDocs(r) == {r.files[k].doc : k \in {j \in 1..Len(r.files) : r.files[j].ext = 0}}

\* The basename is in exactly one of sent and failed and not in ready.
Resolved(d) ==
    /\ d \notin Basenames("ready")
    /\ (d \in Basenames("sent")) # (d \in Basenames("failed"))

\* C2: when one process_ready_queue call has run to completion on a snapshot
\* of M Documents, with no other command in between, each of the M basenames
\* is in exactly one of sent and failed and none is left in ready, whatever
\* sent and failed held before.
C2_SnapshotResolved ==
    \A w \in AllWorkers :
        (wk[w].pc = "done" /\ wk[w].quiet /\ ~wk[w].crashed)
            => \A d \in SnapshotDocs(wk[w]) : Resolved(d)

\* C3: when the worker was killed during process_ready_queue and a later run
\* has completed, with no other command in between, every Document of the
\* original snapshot is in exactly one of sent and failed and not in ready.
C3_ResolvedAfterKillAndRerun ==
    \A w \in AllWorkers :
        (wk[w].pc = "done" /\ wk[w].crashed)
            => \A d \in wk[w].orig : Resolved(d)

(***************************************************************************)
(* SpecDeliver: one call of send_one_file, for every max_attempts, a file  *)
(* that can or cannot be read, and every behaviour of mllp_send over the   *)
(* calls (returns None, returns an ACK, raises).                           *)
(***************************************************************************)
\* --attempts is type=int: negative values and 0 are accepted.
TryArgs == {-1, 0} \cup 1..MaxTries

InitDeliver ==
    /\ dargs \in UNION {{[readable |-> b, max_attempts |-> n, script |-> sc] :
                            b \in BOOLEAN, sc \in Scripts(n)} : n \in TryArgs}
    /\ dret = None
    /\ InitPipe
    /\ CodecIdle
    /\ SendIdle

\* success, meta = send_one_file(filepath, ..., max_attempts=n)
CallSendOneFile ==
    /\ dret = None
    /\ dret' = Some(send_one_file(dargs.readable, dargs.max_attempts, dargs.script))
    /\ UNCHANGED dargs
    /\ UNCHANGED <<codecVars, sendVars, pipeVars>>

NextDeliver == CallSendOneFile

SpecDeliver == InitDeliver /\ [][NextDeliver]_vars

\* Every call of the transport client returns None.
AllNone(script) == \A k \in 1..Len(script) : script[k].kind = "none"

\* send_one_file has returned (it did not leave by an exception).
Returned == dret # None /\ dret[1].exit = "return"

\* C4 as stated: for every max_attempts N, when every call of mllp_send
\* returns None, send_one_file calls it exactly N times and returns failure
\* with attempts = N and the error recorded last.
C4_AllFailExactlyN ==
    (dret # None /\ AllNone(dargs.script))
        => /\ Returned
           /\ Len(dret[1].trace) = dargs.max_attempts
           /\ ~dret[1].success
           /\ dret[1].meta.attempts = dargs.max_attempts
           /\ dret[1].meta.error = "no_ack_or_timeout"

\* C4 as amended: for every max_attempts N >= 1 and a file that can be read,
\* when every call of mllp_send returns None, send_one_file calls it exactly
\* N times and returns failure with attempts = N and the no-ACK error.
C4_AllFailExactlyN_Amended ==
    (dret # None /\ AllNone(dargs.script)
     /\ dargs.max_attempts >= 1 /\ dargs.readable)
        => /\ Returned
           /\ Len(dret[1].trace) = dargs.max_attempts
           /\ ~dret[1].success
           /\ dret[1].meta.attempts = dargs.max_attempts
           /\ dret[1].meta.error = "no_ack_or_timeout"

C4_Witness ==
    /\ Returned /\ dargs.readable
    /\ dargs.max_attempts = 2 /\ AllNone(dargs.script)
    /\ Len(dret[1].trace) = 2
    /\ ~dret[1].success /\ dret[1].meta.attempts = 2

\* C5: when mllp_send returns None on calls 1..K-1 and an ACK on call K
\* (1 <= K <= N), call K is the last one, and send_one_file returns success
\* with attempts = K and the decoded ACK.
C5_AckStopsDelivery ==
    dret # None
        => \A k \in 1..Len(dret[1].trace) :
               dret[1].trace[k].kind = "ack"
                   => /\ k = Len(dret[1].trace)
                      /\ k <= dargs.max_attempts
                      /\ \A j \in 1..(k - 1) : dret[1].trace[j].kind = "none"
                      /\ Returned
                      /\ dret[1].success
                      /\ dret[1].meta.attempts = k
                      /\ dret[1].meta.ack = Some(Decode(dret[1].trace[k].bytes))

C5_Witness ==
    /\ Returned
    /\ dargs.max_attempts = 3
    /\ Len(dret[1].trace) = 2
    /\ dret[1].trace[1].kind = "none" /\ dret[1].trace[2].kind = "ack"
    /\ dret[1].success /\ dret[1].meta.attempts = 2 /\ dret[1].meta.ack # None

ValidationErrors ==
    {"validation_failed:missing_UNA_or_UNB", "validation_failed:missing_UNH",
     "validation_failed:missing_UNT"}

\* The sidecar is a delivery record (it has an error field).
IsSendMeta(m) == m.kind = "meta" /\ "error" \in DOMAIN m

\* C11: in a run of process_ready_queue that no other command disturbs, a
\* file of the snapshot that fails validation is moved to failed with a
\* sidecar whose error is the validation note and whose attempts is 0, no
\* call of send_one_file or mllp_send was made for it, and the loop goes on
\* with the next file of the snapshot.
C11_InvalidGoesToFailedUnsent ==
    [][\A w \in AllWorkers :
          (wk[w].pc = "movemeta" /\ ~wk[w].ok /\ wk[w].quiet /\ wk'[w].pc = "loop")
              => LET fname == wk[w].files[wk[w].i]
                 IN  /\ wk[w].trace = <<>>
                     /\ ~wk[w].success
                     /\ ~Exists(fs', "ready", fname)
                     /\ ~Exists(fs', "ready", META_EXT(fname))
                     /\ ~Exists(fs', "sent", fname) \/ Exists(fs, "sent", fname)
                     /\ Exists(fs', "failed", fname)
                     /\ ~basic_validate_edifact_bytes(fs'["failed"][fname]).ok
                     /\ Exists(fs', "failed", META_EXT(fname))
                     /\ IsSendMeta(fs'["failed"][META_EXT(fname)])
                     /\ fs'["failed"][META_EXT(fname)].error \in ValidationErrors
                     /\ fs'["failed"][META_EXT(fname)].attempts = 0
                     /\ wk'[w].files = wk[w].files
                     /\ wk'[w].i = wk[w].i + 1]_vars

\* An invalid a.edi has been moved to failed with its validation note, and
\* the run is at the next file of its snapshot, which holds b.edi too.
C11_Witness ==
    /\ wk["w1"].pc = "loop" /\ wk["w1"].quiet /\ wk["w1"].i = 2
    /\ wk["w1"].files[1] = Doc("a.edi")
    /\ \E k \in 2..Len(wk["w1"].files) : wk["w1"].files[k] = Doc("b.edi")
    /\ Exists(fs, "failed", Doc("a.edi"))
    /\ Exists(fs, "failed", META_EXT(Doc("a.edi")))
    /\ IsSendMeta(fs["failed"][META_EXT(Doc("a.edi"))])
    /\ fs["failed"][META_EXT(Doc("a.edi"))].error = "validation_failed:missing_UNH"
    /\ fs["failed"][META_EXT(Doc("a.edi"))].attempts = 0
    /\ ~Exists(fs, "ready", Doc("a.edi"))

\* C12: cli_send_one on an existing file: if it fails validation, every
\* directory is left unchanged; if it is valid, the Document leaves the place
\* it was in and is afterwards in exactly one of sent and failed, and ready
\* holds the same files before and after.
C12_SendSingleFrame ==
    [][(last'.op = "send-one" /\ Exists(fs, last'.dir, Doc(last'.doc)))
         => LET name == Doc(last'.doc)
            IN  IF ~basic_validate_edifact_bytes(fs[last'.dir][name]).ok
                THEN /\ fs' = fs
                     /\ last'.res = "Validation failed"
                ELSE /\ fs'["ready"] = fs["ready"]
                     /\ Exists(fs', "sent", name) # Exists(fs', "failed", name)
                     /\ last'.res \in {"Sent and moved", "Send failed; moved"}]_vars

\* C13: process_ready_queue copies a Document into archive exactly when its
\* delivery succeeded and archiving is on.  (1) After a successful delivery
\* with archiving on, the step that follows the moves into sent is the
\* archive step, and it leaves in archive the payload and the sidecar that
\* are in sent.  (2) archive changes in no other step: never with archiving
\* off, never for a Document that went to failed, and never for another name.
C13_ArchivedIffSentAndEnabled ==
    [][\A w \in AllWorkers :
          LET r == wk[w]
          IN  /\ (r.pc = "movemeta" /\ wk'[w].pc \notin {"movemeta", "idle"})
                     => (wk'[w].pc = "archive") = (r.success /\ r.archive)
              /\ (r.pc = "archive" /\ wk'[w].pc = "loop")
                     => LET fname == r.files[r.i]
                        IN  /\ r.success /\ r.archive
                            /\ Exists(fs', "sent", fname)
                            /\ Exists(fs', "archive", fname)
                            /\ fs'["archive"][fname] = fs'["sent"][fname]
                            /\ Exists(fs', "sent", META_EXT(fname))
                            /\ Exists(fs', "archive", META_EXT(fname))
                            /\ fs'["archive"][META_EXT(fname)] = fs'["sent"][META_EXT(fname)]
                            /\ \A n \in DOMAIN fs'["archive"] \ {fname, META_EXT(fname)} :
                                   n \in DOMAIN fs["archive"]
                                   /\ fs'["archive"][n] = fs["archive"][n]
              /\ (fs'["archive"] # fs["archive"])
                     => \E v \in AllWorkers :
                            /\ wk[v].pc = "archive" /\ wk'[v].pc = "loop"
                            /\ wk[v].success /\ wk[v].archive]_vars

\* a.edi was delivered with archiving on and has just been archived.
C13_Witness ==
    /\ wk["w1"].pc = "loop" /\ wk["w1"].archive /\ wk["w1"].i = 2
    /\ wk["w1"].files[1] = Doc("a.edi")
    /\ Exists(fs, "sent", Doc("a.edi")) /\ Exists(fs, "archive", Doc("a.edi"))
    /\ Exists(fs, "archive", META_EXT(Doc("a.edi")))
    /\ IsSendMeta(fs["archive"][META_EXT(Doc("a.edi"))])
    /\ fs["archive"][META_EXT(Doc("a.edi"))].ack # None
    /\ fs["archive"][META_EXT(Doc("a.edi"))] = fs["sent"][META_EXT(Doc("a.edi"))]

\* Worker w has delivered the file it is at, with an ACK, and has not moved
\* it yet.
AckedUnmoved(w) ==
    /\ wk[w].pc \in {"write", "move"}
    /\ wk[w].success
    /\ wk[w].trace # <<>>
    /\ wk[w].trace[Len(wk[w].trace)].kind = "ack"

\* C14: nothing keeps a worker from delivering a Document that another
\* worker is handling: a worker that has validated a file which is still in
\* ready can deliver it and receive an ACK, whatever the other worker has
\* done with the same file.
C14_NoExclusionBetweenWorkers ==
    \A w \in AllWorkers :
        (wk[w].pc = "deliver" /\ Exists(fs, "ready", wk[w].files[wk[w].i]))
            => ENABLED (\E res \in Deliveries(TRUE, wk[w].max_attempts) :
                            res.success /\ Deliver(w, res))

\* Both workers have delivered a.edi and received an ACK; a.edi is still in
\* ready.
C14_Witness ==
    /\ AckedUnmoved("w1") /\ AckedUnmoved("w2")
    /\ wk["w1"].files[wk["w1"].i] = Doc("a.edi")
    /\ wk["w2"].files[wk["w2"].i] = Doc("a.edi")
    /\ Exists(fs, "ready", Doc("a.edi"))

\* C15: cli_queue / move_to_ready never places a file that fails validation
\* into ready: after a queue command that ended with "Queued", the Document
\* it put into ready is valid.
C15_PromotionValidates ==
    [][(last'.op = "queue" /\ last'.res = "Queued")
         => /\ Exists(fs', "ready", Doc(last'.doc))
            /\ basic_validate_edifact_bytes(fs'["ready"][Doc(last'.doc)]).ok]_vars

\* C16: a call of send_one_file (N >= 1, readable file) in which every call
\* of mllp_send returns None makes exactly N - 1 backoff waits
\* (time.sleep(1)): none after the last failed attempt.
C16_NoWaitAfterLastAttempt ==
    (dret # None /\ AllNone(dargs.script) /\ dargs.readable /\ dargs.max_attempts >= 1)
        => dret[1].sleeps = dargs.max_attempts - 1

\* C17: the record send_one_file returns describes the last attempt only:
\* when call K > 1 of mllp_send returns an ACK after calls that returned
\* None, the record has attempts = K, the ACK, and error null.
C17_RecordOfLastAttemptOnly ==
    (Returned /\ dret[1].success /\ Len(dret[1].trace) > 1)
        => /\ dret[1].meta.attempts = Len(dret[1].trace)
           /\ dret[1].meta.ack # None
           /\ dret[1].meta.error = "null"

\* The sidecar m is a delivery record for file fname, with none of the
\* fields of a ready-entry record.
FreshRecordFor(m, fname) ==
    /\ IsSendMeta(m)
    /\ "moved_at" \notin DOMAIN m /\ "src" \notin DOMAIN m
    /\ m.file = fname

\* C18: when process_ready_queue (undisturbed by other commands) or
\* cli_send_one has moved a Document to sent or failed, the Document's
\* sidecar is in that directory too, it is the record written for this
\* transition with no moved_at or src field, and neither the Document nor a
\* sidecar of it remains in the directory it left.
C18_SidecarTravelsWithDocument ==
    [][/\ \A w \in AllWorkers :
            (wk[w].pc = "movemeta" /\ wk[w].quiet /\ wk'[w].pc \in {"loop", "archive"})
                => LET fname == wk[w].files[wk[w].i]
                       dest == IF wk[w].success THEN "sent" ELSE "failed"
                   IN  /\ Exists(fs', dest, fname)
                       /\ Exists(fs', dest, META_EXT(fname))
                       /\ fs'[dest][META_EXT(fname)] = wk[w].meta
                       /\ FreshRecordFor(fs'[dest][META_EXT(fname)], fname)
                       /\ ~Exists(fs', "ready", fname)
                       /\ ~Exists(fs', "ready", META_EXT(fname))
       /\ (last'.op = "send-one"
           /\ last'.res \in {"Sent and moved", "Send failed; moved"})
                => LET name == Doc(last'.doc)
                       dest == IF last'.res = "Sent and moved" THEN "sent" ELSE "failed"
                   IN  /\ Exists(fs', dest, name)
                       /\ Exists(fs', dest, META_EXT(name))
                       /\ FreshRecordFor(fs'[dest][META_EXT(name)], name)
                       /\ (dest = "sent") = (fs'[dest][META_EXT(name)].ack # None)
                       /\ ~Exists(fs', last'.dir, name)
                       /\ ~Exists(fs', last'.dir, META_EXT(name))]_vars

\* The worker has moved a.edi and its sidecar from ready to sent; the sidecar
\* is the delivery record, and send-one has moved b.edi before.
C18_Witness ==
    /\ wk["w1"].pc = "loop" /\ wk["w1"].quiet /\ wk["w1"].i = 2
    /\ wk["w1"].files[1] = Doc("a.edi")
    /\ Exists(fs, "sent", Doc("a.edi")) /\ Exists(fs, "sent", META_EXT(Doc("a.edi")))
    /\ FreshRecordFor(fs["sent"][META_EXT(Doc("a.edi"))], Doc("a.edi"))
    /\ fs["sent"][META_EXT(Doc("a.edi"))].ack # None
    /\ ~Exists(fs, "ready", Doc("a.edi")) /\ ~Exists(fs, "ready", META_EXT(Doc("a.edi")))
    /\ Exists(fs, "failed", Doc("b.edi")) /\ Exists(fs, "failed", META_EXT(Doc("b.edi")))
    /\ ~Exists(fs, "generated", Doc("b.edi"))

\* Worker w is running process_ready_queue and takes one of its steps.
RunStep(w) ==
    /\ wk[w].pc # "idle"
    /\ ops' = ops
    /\ wk'[w] # wk[w]

\* The step of worker w leaves the file named Doc(d) alone: the file is not
\* the one validated, delivered or moved, and it is where it was in every
\* directory, with the content it had.
LeftAlone(w, d) ==
    /\ wk[w].i \in 1..Len(wk[w].files) => wk[w].files[wk[w].i] # Doc(d)
    /\ \A dir \in Dirs :
           /\ Exists(fs', dir, Doc(d)) = Exists(fs, dir, Doc(d))
           /\ Exists(fs, dir, Doc(d)) => fs'[dir][Doc(d)] = fs[dir][Doc(d)]

\* Worker w is about to call the transport for a file of its snapshot, and
\* every Document before it in the snapshot that was not queued again since
\* is out of ready and in sent or failed.
EarlierRelocated(w) ==
    LET r == wk[w]
    IN  r.pc = "deliver" =>
            \A j \in 1..(r.i - 1) :
                (r.files[j].ext = 0 /\ r.files[j].doc \notin r.late) =>
                    /\ ~Exists(fs, "ready", r.files[j])
                    /\ Exists(fs, "sent", r.files[j]) \/ Exists(fs, "failed", r.files[j])

\* The Documents queued since worker record r took its snapshot, under names
\* the snapshot does not hold.
NewNames(r) == {d \in r.late : Doc(d) \notin r.snap}

C20_FailedSidecarNamesError ==
    [][/\ \A w \in AllWorkers :
            (wk[w].pc = "movemeta" /\ wk[w].quiet /\ ~wk[w].success /\ wk'[w].pc = "loop")
                => LET fname == wk[w].files[wk[w].i]
                   IN  /\ Exists(fs', "failed", META_EXT(fname))
                       /\ IsSendMeta(fs'["failed"][META_EXT(fname)])
                       /\ fs'["failed"][META_EXT(fname)].error # "null"
       /\ (last'.op = "send-one" /\ last'.res = "Send failed; moved")
                => LET name == Doc(last'.doc)
                   IN  /\ Exists(fs', "failed", META_EXT(name))
                       /\ IsSendMeta(fs'["failed"][META_EXT(name)])
                       /\ fs'["failed"][META_EXT(name)].error # "null"]_vars

(***************************************************************************)
(* Claims about the codec (checked under SpecCodec).                       *)
(***************************************************************************)
NoCollision == \A i \in 1..Len(payloads) : ~Collides(payloads[i])

\* C6: for payloads P1..Pn (n >= 1, empty ones included) none of which
\* holds the end marker, one call of extract_frames on the buffer
\* frame_message(P1) + ... + frame_message(Pn) returns <<P1, ..., Pn>> in
\* that order and leaves the buffer empty.
C6_DecodeOfEncodedSequence ==
    (NoCollision /\ Len(cuts) = 1 /\ Len(rets) = 1 /\ wire = <<>>)
        => (rets[1] = payloads /\ buf = <<>>)

C6_Witness ==
    /\ NoCollision /\ Len(cuts) = 1 /\ Len(rets) = 1 /\ wire = <<>>
    /\ Len(payloads) = 2 /\ payloads[1] = <<>> /\ payloads[2] = <<65, 11>>
    /\ rets[1] = payloads /\ buf = <<>>

\* C7: for one payload A that does not hold the end marker and every split of
\* frame_message(A) into a non-empty proper prefix and the rest, the call on
\* the prefix returns no frame and leaves the prefix in the buffer, and the
\* call after the rest has been appended returns <<A>>.
C7_SplitFrameReassembled ==
    (Len(payloads) = 1 /\ NoCollision)
        => /\ (Len(rets) >= 1 /\ cuts[1] < Len(Framed(payloads)))
                => /\ rets[1] = <<>>
                   /\ Len(cuts) = 1 => buf = Slice(Framed(payloads), 0, cuts[1])
           /\ (Len(cuts) = 2 /\ Len(rets) = 2 /\ wire = <<>>) => rets[2] = payloads

C7_Witness ==
    /\ payloads = << <<65>> >>
    /\ cuts = <<3, 1>>
    /\ rets = << <<>>, << <<65>> >> >>
    /\ buf = <<>>


(***************************************************************************)
(* SpecSend: one call of mllp_send.  The peer's answer is the stream       *)
(* `wire`, which recv hands over in chunks; what the network does at each  *)
(* statement is the environment's choice.                                  *)
(***************************************************************************)
CaFiles == {"", "ca.pem", "unloadable.pem"}

InitSend ==
    /\ payloads \in PayloadSeqs \cup {<<>>}
    /\ wire = Framed(payloads)
    /\ buf = <<>> /\ rets = <<>> /\ cuts = <<>>
    /\ mpc = "connect"
    /\ tls \in BOOLEAN
    /\ cafile \in CaFiles
    /\ fd = "none" /\ conn = "none" /\ mres = "pending" /\ mret = <<>>
    /\ InitPipe
    /\ DeliverIdle

\* The finally clause: conn.close().
FinallyClose == fd' = "closed"

\* raw = socket.create_connection(...); except Exception: return None
Connect(ok) ==
    /\ mpc = "connect"
    /\ IF ok
       THEN /\ fd' = "open" /\ conn' = "raw"
            /\ mpc' = IF tls THEN "context" ELSE "send"
            /\ UNCHANGED mres
       ELSE /\ mres' = "none" /\ mpc' = "exit"
            /\ UNCHANGED <<fd, conn>>
    /\ UNCHANGED <<tls, cafile, mret>>
    /\ UNCHANGED codecVars
    /\ UNCHANGED <<pipeVars, deliverVars>>

\* context = ssl.create_default_context(...), outside every try: loading an
\* unloadable cafile raises out of mllp_send.
Context ==
    /\ mpc = "context"
    /\ IF cafile = "unloadable.pem"
       THEN /\ mres' = "raised" /\ mpc' = "exit"
       ELSE /\ mpc' = "wrap" /\ UNCHANGED mres
    /\ UNCHANGED <<tls, cafile, fd, conn, mret>>
    /\ UNCHANGED codecVars
    /\ UNCHANGED <<pipeVars, deliverVars>>

\* conn = context.wrap_socket(raw, ...); except Exception: raw.close(); return None
Wrap(ok) ==
    /\ mpc = "wrap"
    /\ IF ok
       THEN /\ conn' = "tls" /\ mpc' = "send"
            /\ UNCHANGED <<fd, mres>>
       ELSE /\ fd' = "closed" /\ mres' = "none" /\ mpc' = "exit"
            /\ UNCHANGED conn
    /\ UNCHANGED <<tls, cafile, mret>>
    /\ UNCHANGED codecVars
    /\ UNCHANGED <<pipeVars, deliverVars>>

\* conn.settimeout(timeout); conn.sendall(frame_message(payload)): no except
\* clause of the try catches what they raise.
Send(ok) ==
    /\ mpc = "send"
    /\ IF ok
       THEN /\ mpc' = "recv" /\ UNCHANGED <<fd, mres>>
       ELSE /\ FinallyClose /\ mres' = "raised" /\ mpc' = "exit"
    /\ UNCHANGED <<tls, cafile, conn, mret>>
    /\ UNCHANGED codecVars
    /\ UNCHANGED <<pipeVars, deliverVars>>

\* chunk = conn.recv(4096) raises socket.timeout: return None
RecvTimeout ==
    /\ mpc = "recv"
    /\ FinallyClose /\ mres' = "none" /\ mpc' = "exit"
    /\ UNCHANGED <<tls, cafile, conn, mret>>
    /\ UNCHANGED codecVars
    /\ UNCHANGED <<pipeVars, deliverVars>>

\* conn.recv raises anything else (a reset connection, a TLS error)
RecvError ==
    /\ mpc = "recv"
    /\ FinallyClose /\ mres' = "raised" /\ mpc' = "exit"
    /\ UNCHANGED <<tls, cafile, conn, mret>>
    /\ UNCHANGED codecVars
    /\ UNCHANGED <<pipeVars, deliverVars>>

\* if not chunk: return None (the peer closed)
RecvEof ==
    /\ mpc = "recv"
    /\ FinallyClose /\ mres' = "none" /\ mpc' = "exit"
    /\ UNCHANGED <<tls, cafile, conn, mret>>
    /\ UNCHANGED codecVars
    /\ UNCHANGED <<pipeVars, deliverVars>>

\* A chunk of n bytes: buf.extend(chunk); frames = extract_frames(buf);
\* return frames[0] if there is one, None once the deadline has passed
\* (late), else read on.
RecvChunk(n, late) ==
    /\ mpc = "recv"
    /\ Len(cuts) < MaxFills
    /\ n \in 1..Len(wire)
    /\ LET r == extract_frames(buf \o Slice(wire, 0, n))
       IN  /\ buf' = r.buffer
           /\ rets' = Append(rets, r.frames)
           /\ IF r.frames # <<>>
              THEN /\ mret' = r.frames[1] /\ mres' = "ack"
                   /\ FinallyClose /\ mpc' = "exit"
              ELSE IF late
              THEN /\ mres' = "none" /\ FinallyClose /\ mpc' = "exit"
                   /\ UNCHANGED mret
              ELSE UNCHANGED <<mpc, fd, mres, mret>>
    /\ wire' = Slice(wire, n, Len(wire))
    /\ cuts' = Append(cuts, n)
    /\ UNCHANGED <<payloads, tls, cafile, conn>>
    /\ UNCHANGED <<pipeVars, deliverVars>>

NextSend ==
    \/ \E ok \in BOOLEAN : Connect(ok)
    \/ Context
    \/ \E ok \in BOOLEAN : Wrap(ok)
    \/ \E ok \in BOOLEAN : Send(ok)
    \/ RecvTimeout
    \/ RecvError
    \/ RecvEof
    \/ \E n \in 1..MaxWire, late \in BOOLEAN : RecvChunk(n, late)

SpecSend == InitSend /\ [][NextSend]_vars

(***************************************************************************)
(* Claims about the transport client (checked under SpecSend).             *)
(***************************************************************************)
\* C9: every failure of mllp_send is returned as a failure result and never
\* raised (so that process_ready_queue moves the Document to Failed and goes
\* on with the rest of its snapshot).
C9_FailuresReturnedNeverRaised == mpc = "exit" => mres \in {"ack", "none"}

\* C10: on every exit path of mllp_send after the connection was opened,
\* the connection has been closed.
C10_ConnectionClosedOnExit == (mpc = "exit" /\ fd # "none") => fd = "closed"


=============================================================================
